---- MODULE Spec2Model ----
(***************************************************************************)
(* Phrase matcher, segment resolver and caption windower of the            *)
(* transcript word-timestamp demo (assemblyai-youtube-transcript), with    *)
(* the SRT time parser and the collection of a clip's words.               *)
(*                                                                         *)
(* Representation.                                                         *)
(*  - A text is a sequence of one-character strings, so that lower(),      *)
(*    split(), ' '.join() and the rapidfuzz scorers are computed           *)
(*    character by character.                                              *)
(*  - A time in seconds is held as the integer number of milliseconds      *)
(*    (the value start_time of the code is start_time * 1000 here); the    *)
(*    0.5 s radius of the overlap filter is therefore 500.                 *)
(*  - A similarity score is the exact rational [n, d] in lowest terms of   *)
(*    the value the scorer computes (0 .. 100).                            *)
(***************************************************************************)
EXTENDS Integers, Sequences, FiniteSets, TLC

VARIABLES
    words,                 \* transcript.words, the Word Timeline
    op,                    \* the call made on it, "none" before the call
    search_phrase,         \* arguments of the call
    start_text,
    end_text,
    similarity_threshold,
    window_size,
    start_occurrences,     \* locals of find_text_segment (lines 61-64)
    end_occurrences,
    windows,               \* the window_words of the loop, in loop order
    clips,                 \* the text clips scheduled (local clips)
    result,                \* what the call returned or raised
    calls,                 \* history: the number of searches made so far
    earlier_result,        \* history: what the search before this one returned
    timestamp,             \* argument of parse_srt_timestamp
    chosen_start_time,     \* process_video: start_time, end_time of the chosen match, in ms
    chosen_end_time,
    clip_duration,         \* process_video: the clip's length, in ms
    clip_segment_words,    \* process_video: segment_words, the words handed to extract_clip
    pc,                    \* process_video: where the run stands
    arg_search_phrase,     \* process_video: its arguments search_phrase, start_text,
    arg_start_text,        \*   end_text and clip_duration
    arg_end_text,
    arg_clip_duration,
    pv_occurrences,        \* process_video: occurrences, the matches found
    choice,                \* process_video: the user's last answer
    audio_downloaded,      \* process_video: download_audio was called
    extract_clip_calls,    \* process_video: the calls of extract_clip made
    input_full_text,       \* full_text, the argument of get_segment_texts
    disk,                  \* the paths that name an existing file (os.path.exists)
    clip_env,              \* what the download, the encoder and os.remove did in the call
    clip_outcome           \* what extract_clip or the two-pass render returned or raised

vars == <<words, op, search_phrase, start_text, end_text, similarity_threshold,
          window_size, start_occurrences, end_occurrences, windows, clips, result,
          calls, earlier_result, timestamp, chosen_start_time, chosen_end_time, clip_duration,
          clip_segment_words, pc, arg_search_phrase, arg_start_text, arg_end_text,
          arg_clip_duration, pv_occurrences, choice, audio_downloaded, extract_clip_calls,
          input_full_text, disk, clip_env, clip_outcome>>

\* The arguments and locals of the calls of the searcher and the windower.
callVars == <<search_phrase, start_text, end_text, similarity_threshold,
              window_size, start_occurrences, end_occurrences, windows, clips,
              calls, earlier_result>>

\* The arguments and locals of the other calls.
pipelineVars == <<pc, arg_search_phrase, arg_start_text, arg_end_text,
                  arg_clip_duration, pv_occurrences, choice, audio_downloaded,
                  extract_clip_calls>>

utilityVars == <<timestamp, chosen_start_time, chosen_end_time, clip_duration,
                 clip_segment_words, pipelineVars>>

\* The arguments and locals of get_segment_texts.
fileVars == <<disk, clip_env, clip_outcome>>

auxVars == <<input_full_text, fileVars>>

(***************************************************************************)
(* Bounds of the model.                                                    *)
(***************************************************************************)
MaxWords == 3
MaxWindowSize == 3
MaxCalls == 2
MaxTextWords == 12

(***************************************************************************)
(* Rational scores.                                                        *)
(***************************************************************************)
RECURSIVE GCD(_, _)
GCD(a, b) == IF b = 0 THEN a ELSE GCD(b, a % b)

Rat(n, d) == LET g == GCD(n, d) IN [n |-> n \div g, d |-> d \div g]

RatGeq(p, q) == p.n * q.d >= q.n * p.d

RatGt(p, q) == p.n * q.d > q.n * p.d

RatMax(p, q) == IF RatGeq(p, q) THEN p ELSE q

RatAvg(p, q) == Rat(p.n * q.d + q.n * p.d, 2 * p.d * q.d)

(***************************************************************************)
(* str.lower(), str.split() and ' '.join().                                *)
(***************************************************************************)
LowerCase ==
    << "a", "b", "c", "d", "e", "f", "g", "h", "i", "j", "k", "l", "m",
       "n", "o", "p", "q", "r", "s", "t", "u", "v", "w", "x", "y", "z" >>

UpperCase ==
    << "A", "B", "C", "D", "E", "F", "G", "H", "I", "J", "K", "L", "M",
       "N", "O", "P", "Q", "R", "S", "T", "U", "V", "W", "X", "Y", "Z" >>

LowerChar(c) ==
    IF \E i \in 1..Len(UpperCase) : UpperCase[i] = c
    THEN LowerCase[CHOOSE i \in 1..Len(UpperCase) : UpperCase[i] = c]
    ELSE c

Lower(s) == [i \in 1..Len(s) |-> LowerChar(s[i])]

\* str.split() with no argument: maximal runs of non-whitespace characters.
RECURSIVE SplitFrom(_, _, _, _)
SplitFrom(s, i, cur, acc) ==
    IF i > Len(s)
    THEN IF cur = <<>> THEN acc ELSE Append(acc, cur)
    ELSE IF s[i] = " "
         THEN SplitFrom(s, i + 1, <<>>, IF cur = <<>> THEN acc ELSE Append(acc, cur))
         ELSE SplitFrom(s, i + 1, Append(cur, s[i]), acc)

Split(s) == SplitFrom(s, 1, <<>>, <<>>)

\* ' '.join(tokens)
RECURSIVE Join(_)
Join(tokens) ==
    IF tokens = <<>> THEN <<>>
    ELSE IF Len(tokens) = 1 THEN tokens[1]
    ELSE tokens[1] \o <<" ">> \o Join(Tail(tokens))

(***************************************************************************)
(* rapidfuzz.fuzz scorers used by compare_phrases.                         *)
(***************************************************************************)
Max2(a, b) == IF a >= b THEN a ELSE b

\* One row of the longest-common-subsequence table: prev is the row of the
\* preceding character of the first string, acc the part of the new row
\* already computed (acc[j + 1] is the entry for the first j characters of b).
RECURSIVE LcsRow(_, _, _, _)
LcsRow(prev, c, b, acc) ==
    LET j == Len(acc) IN
    IF j > Len(b) THEN acc
    ELSE LcsRow(prev, c, b,
                Append(acc, IF c = b[j] THEN prev[j] + 1
                            ELSE Max2(prev[j + 1], acc[j])))

RECURSIVE LcsRows(_, _, _, _)
LcsRows(a, b, i, prev) ==
    IF i > Len(a) THEN prev[Len(b) + 1]
    ELSE LcsRows(a, b, i + 1, LcsRow(prev, a[i], b, <<0>>))

LCS(a, b) == LcsRows(a, b, 1, [j \in 1..(Len(b) + 1) |-> 0])

\* fuzz.ratio: 100 * (1 - indel_distance / (len1 + len2)), 100 for two empty
\* strings; the indel distance is len1 + len2 - 2 * LCS.
FuzzRatio(a, b) ==
    IF Len(a) + Len(b) = 0 THEN Rat(100, 1)
    ELSE Rat(200 * LCS(a, b), Len(a) + Len(b))

\* The substrings of the longer string that partial_ratio aligns the shorter
\* string (length m) with: the prefixes shorter than m, every window of
\* length m, and the suffixes shorter than m.
Alignments(m, l) ==
    { SubSeq(l, 1, i) : i \in 1..(m - 1) }
      \cup { SubSeq(l, i, i + m - 1) : i \in 1..(Len(l) - m + 1) }
      \cup { SubSeq(l, Len(l) - i + 1, Len(l)) : i \in 1..(m - 1) }

RECURSIVE RatMaxOver(_, _)
RatMaxOver(S, best) ==
    IF S = {} THEN best
    ELSE LET x == CHOOSE y \in S : TRUE
         IN RatMaxOver(S \ {x}, RatMax(best, x))

PartialRatioImpl(s, l) ==
    RatMaxOver({ FuzzRatio(s, w) : w \in Alignments(Len(s), l) }, Rat(0, 1))

\* fuzz.partial_ratio: best fuzz.ratio of the shorter string against an
\* alignment in the longer one; strings of equal length are tried both ways.
FuzzPartialRatio(a, b) ==
    IF Len(a) = 0 /\ Len(b) = 0 THEN Rat(100, 1)
    ELSE IF Len(a) < Len(b) THEN PartialRatioImpl(a, b)
    ELSE IF Len(b) < Len(a) THEN PartialRatioImpl(b, a)
    ELSE RatMax(PartialRatioImpl(a, b), PartialRatioImpl(b, a))

\* sorted(tokens): the tokens in lexicographic order of their characters
\* (the texts compared are lower-cased, so a token holds lower-case letters).
CharRank(c) ==
    IF \E i \in 1..Len(LowerCase) : LowerCase[i] = c
    THEN CHOOSE i \in 1..Len(LowerCase) : LowerCase[i] = c
    ELSE 0

RECURSIVE TokenLeq(_, _)
TokenLeq(x, y) ==
    IF x = <<>> THEN TRUE
    ELSE IF y = <<>> THEN FALSE
    ELSE IF CharRank(x[1]) < CharRank(y[1]) THEN TRUE
    ELSE IF CharRank(x[1]) > CharRank(y[1]) THEN FALSE
    ELSE TokenLeq(Tail(x), Tail(y))

RECURSIVE InsertToken(_, _)
InsertToken(sorted, t) ==
    IF sorted = <<>> THEN <<t>>
    ELSE IF TokenLeq(t, sorted[1]) THEN <<t>> \o sorted
    ELSE <<sorted[1]>> \o InsertToken(Tail(sorted), t)

RECURSIVE SortTokens(_)
SortTokens(tokens) ==
    IF tokens = <<>> THEN <<>>
    ELSE InsertToken(SortTokens(Tail(tokens)), tokens[1])

\* fuzz.token_sort_ratio: fuzz.ratio of the two strings with their tokens
\* sorted and joined by single spaces.
FuzzTokenSortRatio(a, b) ==
    FuzzRatio(Join(SortTokens(Split(a))), Join(SortTokens(Split(b))))

compare_phrases(phrase1, phrase2) ==
    << FuzzRatio(Lower(phrase1), Lower(phrase2)),
       FuzzPartialRatio(Lower(phrase1), Lower(phrase2)),
       FuzzTokenSortRatio(Lower(phrase1), Lower(phrase2)) >>

best_score(phrase1, phrase2) ==
    LET r == compare_phrases(phrase1, phrase2)
    IN RatMax(r[1], RatMax(r[2], r[3]))

(***************************************************************************)
(* Word Timelines: transcript.words, sorted by start, with end >= start.   *)
(***************************************************************************)
Vocab == { <<"a", "b">>, <<"B", "a">>, <<"c">> }

FirstStarts == {250}

Gaps == {250, 500}

Durations == {0, 500}

Word(t, s, e) == [text |-> t, start |-> s, end |-> e]

NextStarts(tl) ==
    IF tl = <<>> THEN FirstStarts ELSE { tl[Len(tl)].start + g : g \in Gaps }

RECURSIVE Timelines(_)
Timelines(n) ==
    IF n = 0 THEN { <<>> }
    ELSE UNION { { Append(tl, Word(t, s, s + d)) :
                     t \in Vocab, d \in Durations, s \in NextStarts(tl) } :
                 tl \in Timelines(n - 1) }

\* The timeline of the documented scenarios: hello 0-500, world 500-1000,
\* today 1000-1500.
Hello == <<"h", "e", "l", "l", "o">>

World == <<"w", "o", "r", "l", "d">>

Today == <<"t", "o", "d", "a", "y">>

Xylophone == <<"x", "y", "l", "o", "p", "h", "o", "n", "e">>

ScenarioTimeline ==
    << Word(Hello, 0, 500), Word(World, 500, 1000), Word(Today, 1000, 1500) >>

\* A transcript whose first word starts and ends at time 0.
ZeroWordTimeline == << Word(<<"c">>, 0, 0), Word(<<"a", "b">>, 250, 750) >>

\* A clip of seven words, a quarter of a second each, for the default caption
\* window of five words.
SevenWords ==
    [i \in 1..7 |->
        Word(IF i % 3 = 1 THEN <<"a", "b">> ELSE IF i % 3 = 2 THEN <<"B", "a">> ELSE <<"c">>,
             250 * i, 250 * i + 250)]

AllTimelines ==
    UNION { Timelines(n) : n \in 0..MaxWords } \cup { ScenarioTimeline, SevenWords, ZeroWordTimeline }

\* Search phrases: exact, upper-case, two tokens, two tokens in the other
\* order with a doubled space, and the phrases without any token.
Phrases ==
    { <<"a", "b">>, <<"C">>, <<"A", "b", " ", "b", "a">>,
      <<"b", "a", " ", " ", "a", "b">>, <<>>, <<" ">> }

ScenarioPhrases == { Hello \o <<" ">> \o World, Xylophone, <<" ">> }

PhrasesFor(ws) == IF ws = ScenarioTimeline THEN ScenarioPhrases ELSE Phrases

\* Anchor texts of find_text_segment: one token, two tokens, no token.
AnchorTexts == { <<"a", "b">>, <<"c">>, <<"b", "a", " ", "c">> }

BlankText == <<" ">>

ScenarioAnchors == { Hello, Today }

\* The (start_text, end_text) pairs tried on a timeline.
AnchorPairsFor(ws) ==
    IF ws = ScenarioTimeline THEN ScenarioAnchors \X ScenarioAnchors
    ELSE (AnchorTexts \X AnchorTexts)
           \cup { <<BlankText, <<"a", "b">> >>, << <<"a", "b">>, BlankText>> }

Thresholds == {60, 80, 100}

\* similarity_threshold is an int the caller is free to choose (--threshold,
\* type=int): one value below and one above the range 0..100, tried on the
\* timeline of the documented scenarios.
OutOfRangeThresholds == {-1, 101}

ThresholdsFor(ws) ==
    IF ws = ScenarioTimeline THEN Thresholds \cup OutOfRangeThresholds ELSE Thresholds

\* best_score is a function of the two texts alone; it is tabulated once over
\* the lower-cased phrases and the texts of the windows they are compared with.
RECURSIVE WindowTexts(_)
WindowTexts(k) ==
    IF k = 0 THEN { <<>> }
    ELSE IF k = 1 THEN Vocab
    ELSE { w \o <<" ">> \o t : w \in Vocab, t \in WindowTexts(k - 1) }

ScenarioWindowTexts(k) ==
    { Join([j \in 1..k |-> ScenarioTimeline[i + j].text]) :
        i \in 0..(Len(ScenarioTimeline) - k) }

LoweredPhrases ==
    { Lower(p) : p \in Phrases \cup AnchorTexts \cup { BlankText }
                       \cup ScenarioPhrases \cup ScenarioAnchors }

ScoreTable ==
    [p \in LoweredPhrases |->
        [t \in WindowTexts(Len(Split(p))) \cup ScenarioWindowTexts(Len(Split(p)))
           |-> best_score(p, t)]]

ScoreOf(phrase, sequence_text) == ScoreTable[phrase][sequence_text]

(***************************************************************************)
(* FuzzySearcher.find_phrase_occurrences                                   *)
(***************************************************************************)
Occurrence(st, et, txt, sc) ==
    [start_time |-> st, end_time |-> et, text |-> txt, score |-> sc]

AbsDiff(a, b) == IF a >= b THEN a - b ELSE b - a

\* Mutant of Candidate: the end of the window's first word is taken.
Candidate_EndOfFirstWord(ws, phrase, k, i) ==
    LET sequence_words == SubSeq(ws, i + 1, i + k)
        sequence_text == Join([j \in 1..k |-> sequence_words[j].text])
    IN Occurrence(sequence_words[1].start, sequence_words[1].end,
                  sequence_text, ScoreOf(phrase, sequence_text))

\* The candidate of the window starting at index i (0-based) of k words, as
\* lines 30-48 build it.
Candidate(ws, phrase, k, i) ==
    LET sequence_words == SubSeq(ws, i + 1, i + k)
        sequence_text == Join([j \in 1..k |-> sequence_words[j].text])
    IN Occurrence(sequence_words[1].start, sequence_words[k].end,
                  sequence_text, ScoreOf(phrase, sequence_text))

\* Mutant of Qualifies: the comparison is turned round.
Qualifies_Reversed(score, threshold) == RatGeq(Rat(threshold, 1), score)

Qualifies(score, threshold) == RatGeq(score, Rat(threshold, 1))

\* The loop of lines 29-48: the qualifying windows, in window order.
RECURSIVE Candidates(_, _, _, _, _)
Candidates(ws, phrase, k, threshold, i) ==
    IF i > Len(ws) - k THEN <<>>
    ELSE LET sequence_text == Join([j \in 1..k |-> ws[i + j].text])
             rest == Candidates(ws, phrase, k, threshold, i + 1)
         IN IF Qualifies(ScoreOf(phrase, sequence_text), threshold)
            THEN <<Candidate(ws, phrase, k, i)>> \o rest
            ELSE rest

\* list.sort(key = -score): stable, so equal scores keep window order.
RECURSIVE InsertByScore(_, _)
InsertByScore(sorted, occ) ==
    IF sorted = <<>> THEN <<occ>>
    ELSE IF RatGeq(sorted[1].score, occ.score)
         THEN <<sorted[1]>> \o InsertByScore(Tail(sorted), occ)
         ELSE <<occ>> \o sorted

\* Mutant of SortByScore: the candidates are left in window order.
SortByScore_Unsorted(occurrences, acc) == acc \o occurrences

RECURSIVE SortByScore(_, _)
SortByScore(occurrences, acc) ==
    IF occurrences = <<>> THEN acc
    ELSE SortByScore(Tail(occurrences), InsertByScore(acc, occurrences[1]))

\* 0.5 (seconds), in milliseconds.
OverlapRadius == 500

\* Mutant of similar_exists: the score comparison is turned round.
similar_exists_ScoreReversed(filtered, occ) ==
    \E j \in 1..Len(filtered) :
        /\ AbsDiff(filtered[j].start_time, occ.start_time) < OverlapRadius
        /\ RatGeq(occ.score, filtered[j].score)

\* Mutant of similar_exists: the radius is inclusive.
similar_exists_InclusiveRadius(filtered, occ) ==
    \E j \in 1..Len(filtered) :
        /\ AbsDiff(filtered[j].start_time, occ.start_time) <= OverlapRadius
        /\ RatGeq(filtered[j].score, occ.score)

similar_exists(filtered, occ) ==
    \E j \in 1..Len(filtered) :
        /\ AbsDiff(filtered[j].start_time, occ.start_time) < OverlapRadius
        /\ RatGeq(filtered[j].score, occ.score)

RECURSIVE FilterFrom(_, _)
FilterFrom(occurrences, filtered) ==
    IF occurrences = <<>> THEN filtered
    ELSE FilterFrom(Tail(occurrences),
                    IF similar_exists(filtered, occurrences[1])
                    THEN filtered
                    ELSE Append(filtered, occurrences[1]))

\* Mutant of filter_overlapping_occurrences: nothing is filtered out.
filter_overlapping_occurrences_KeepAll(occurrences) == occurrences

filter_overlapping_occurrences(occurrences) == FilterFrom(occurrences, <<>>)

\* A call either returns a value or raises: [exc, value].
Returned(v) == [exc |-> "none", value |-> v]

Raised(e) == [exc |-> e, value |-> <<>>]

\* Mutant of find_phrase_occurrences: a phrase of more tokens than the
\* timeline has words is an error instead of an empty result.
find_phrase_occurrences_ShortTimelineRaises(ws, phrase0, threshold) ==
    LET phrase == Lower(phrase0)
        k == Len(Split(phrase))
    IN IF k = 0 /\ Qualifies(ScoreOf(phrase, <<>>), threshold)
       THEN Raised("IndexError")
       ELSE IF k = 0 THEN Returned(<<>>)
       ELSE IF k > Len(ws) THEN Raised("IndexError")
       ELSE Returned(filter_overlapping_occurrences(
                SortByScore(Candidates(ws, phrase, k, threshold, 0), <<>>)))

\* With a phrase of no token every window is empty, and the first window that
\* qualifies raises IndexError at sequence_words[0] (line 40).
find_phrase_occurrences(ws, phrase0, threshold) ==
    LET phrase == Lower(phrase0)
        k == Len(Split(phrase))
    IN IF k = 0 /\ Qualifies(ScoreOf(phrase, <<>>), threshold)
       THEN Raised("IndexError")
       ELSE IF k = 0 THEN Returned(<<>>)
       ELSE Returned(filter_overlapping_occurrences(
                SortByScore(Candidates(ws, phrase, k, threshold, 0), <<>>)))

(***************************************************************************)
(* FuzzySearcher.find_text_segment and _get_best_segment                   *)
(***************************************************************************)
\* Mutant of Segment: the range of word starts excludes the segment's end.
Segment_ExclusiveEnd(ws, start_occ, end_occ) ==
    LET start_time == start_occ.start_time
        end_time == end_occ.end_time
        segment_words == SelectSeq(ws, LAMBDA w : start_time <= w.start /\ w.start < end_time)
        full_text == Join([j \in 1..Len(segment_words) |-> segment_words[j].text])
    IN [start_time |-> start_time, end_time |-> end_time, text |-> full_text,
        score |-> RatAvg(start_occ.score, end_occ.score)]

\* The body of the accepted pair (lines 98-106).
Segment(ws, start_occ, end_occ) ==
    LET start_time == start_occ.start_time
        end_time == end_occ.end_time
        segment_words == SelectSeq(ws, LAMBDA w : start_time <= w.start /\ w.start <= end_time)
        full_text == Join([j \in 1..Len(segment_words) |-> segment_words[j].text])
    IN Occurrence(start_time, end_time, full_text,
                  RatAvg(start_occ.score, end_occ.score))

\* Mutant of PairAccepted: an end equal to the start is accepted.
PairAccepted_NotStrict(start_occ, end_occ) == end_occ.end_time >= start_occ.start_time

PairAccepted(start_occ, end_occ) == end_occ.end_time > start_occ.start_time

\* The nested loops of lines 92-108, from the pair (i, j) on; None is the
\* empty sequence and a returned segment the sequence of that one segment.
RECURSIVE BestSegmentFrom(_, _, _, _, _)
BestSegmentFrom(ws, starts, ends, i, j) ==
    IF i > Len(starts) THEN <<>>
    ELSE IF j > Len(ends)
         THEN BestSegmentFrom(ws, starts, ends, i + 1, 1)
    ELSE IF PairAccepted(starts[i], ends[j])
         THEN << Segment(ws, starts[i], ends[j]) >>
    ELSE BestSegmentFrom(ws, starts, ends, i, j + 1)

\* Mutant of get_best_segment: the loops are nested the other way round.
RECURSIVE BestSegmentEndsFirst(_, _, _, _, _)
BestSegmentEndsFirst(ws, starts, ends, i, j) ==
    IF j > Len(ends) THEN <<>>
    ELSE IF i > Len(starts)
         THEN BestSegmentEndsFirst(ws, starts, ends, 1, j + 1)
    ELSE IF PairAccepted(starts[i], ends[j])
         THEN << Segment(ws, starts[i], ends[j]) >>
    ELSE BestSegmentEndsFirst(ws, starts, ends, i + 1, j)

get_best_segment_EndsFirst(ws, starts, ends) ==
    BestSegmentEndsFirst(ws, starts, ends, 1, 1)

\* Mutant of get_best_segment: only the two top-ranked occurrences are paired.
get_best_segment_TopPairOnly(ws, starts, ends) ==
    IF PairAccepted(starts[1], ends[1])
    THEN << Segment(ws, starts[1], ends[1]) >>
    ELSE <<>>

get_best_segment(ws, starts, ends) ==
    BestSegmentFrom(ws, starts, ends, 1, 1)

find_text_segment(ws, st, et, threshold) ==
    LET starts == find_phrase_occurrences(ws, st, threshold)
        ends == find_phrase_occurrences(ws, et, threshold)
    IN IF starts.exc # "none" THEN Raised(starts.exc)
       ELSE IF ends.exc # "none" THEN Raised(ends.exc)
       ELSE IF starts.value = <<>> \/ ends.value = <<>>
            THEN Returned(<<>>)
       ELSE Returned(get_best_segment(ws, starts.value,
                                      ends.value))

(***************************************************************************)
(* YouTubeHandler.process_video_with_highlights: the caption windows and   *)
(* the text clips scheduled for them.                                      *)
(***************************************************************************)
\* Mutant of WindowWords: the slice stops one word early.
WindowWords_OneShort(ws, i, size) ==
    SubSeq(ws, i + 1, IF i + size - 1 <= Len(ws) THEN i + size - 1 ELSE Len(ws))

\* Mutant of WindowWords: the slice takes one word of the next window.
WindowWords_OneLong(ws, i, size) ==
    SubSeq(ws, i + 1, IF i + size + 1 <= Len(ws) THEN i + size + 1 ELSE Len(ws))

\* words[i:i + window_size]
WindowWords(ws, i, size) ==
    SubSeq(ws, i + 1, IF i + size <= Len(ws) THEN i + size ELSE Len(ws))

\* The windows of range(0, len(ws), size) in loop order; an empty slice is
\* skipped (lines 128-129).
RECURSIVE WindowsFrom(_, _, _)
WindowsFrom(ws, i, size) ==
    IF i >= Len(ws) THEN <<>>
    ELSE LET window_words == WindowWords(ws, i, size)
         IN (IF window_words = <<>> THEN <<>> ELSE <<window_words>>)
              \o WindowsFrom(ws, i + size, size)

\* window_size: int = 5
DefaultWindowSize == 5

WindowSizes == 1..MaxWindowSize \cup { DefaultWindowSize }

TextClip(kind, w, window, st, dur) ==
    [kind |-> kind, word |-> w, window |-> window, start |-> st, duration |-> dur]

\* Mutant of WordClips: times are taken relative to the window's first word
\* instead of the clip's.
WordClips_WindowRelative(window_words, n, word_idx, clip_start_ms) ==
    LET window_start == 0
        window_end == window_words[Len(window_words)].end - window_words[1].start
        word == window_words[word_idx]
        word_start == word.start - window_words[1].start
        word_end == word.end - window_words[1].start
    IN << TextClip("background", word_idx, n, window_start, window_end - window_start),
          TextClip("highlight", word_idx, n, word_start, word_end - word_start) >>

\* The two clips of one word of a window (lines 140-175): the background
\* text over the window's span and the highlight over the word's own span,
\* both relative to clip_start_ms.
WordClips(window_words, n, word_idx, clip_start_ms) ==
    LET window_start == window_words[1].start - clip_start_ms
        window_end == window_words[Len(window_words)].end - clip_start_ms
        word == window_words[word_idx]
        word_start == word.start - clip_start_ms
        word_end == word.end - clip_start_ms
    IN << TextClip("background", word_idx, n, window_start, window_end - window_start),
          TextClip("highlight", word_idx, n, word_start, word_end - word_start) >>

RECURSIVE WindowClips(_, _, _, _)
WindowClips(window_words, n, word_idx, clip_start_ms) ==
    IF word_idx > Len(window_words) THEN <<>>
    ELSE WordClips(window_words, n, word_idx, clip_start_ms)
           \o WindowClips(window_words, n, word_idx + 1, clip_start_ms)

RECURSIVE ClipsFrom(_, _, _)
ClipsFrom(wins, n, clip_start_ms) ==
    IF n > Len(wins) THEN <<>>
    ELSE WindowClips(wins[n], n, 1, clip_start_ms)
           \o ClipsFrom(wins, n + 1, clip_start_ms)

(***************************************************************************)
(* utils/time_utils.parse_srt_timestamp                                    *)
(***************************************************************************)
Digits == << "0", "1", "2", "3", "4", "5", "6", "7", "8", "9" >>

IsDigit(c) == \E d \in 1..10 : Digits[d] = c

DigitValue(c) == (CHOOSE d \in 1..10 : Digits[d] = c) - 1

\* timestamp.replace(',', ':')
ReplaceComma(text) == [i \in 1..Len(text) |-> IF text[i] = "," THEN ":" ELSE text[i]]

\* str.split(':'): the parts between the separators, empty parts included.
RECURSIVE SplitOnColon(_, _)
SplitOnColon(text, part) ==
    IF text = <<>> THEN <<part>>
    ELSE IF text[1] = ":" THEN <<part>> \o SplitOnColon(Tail(text), <<>>)
    ELSE SplitOnColon(Tail(text), Append(part, text[1]))

\* int(part) of a text of decimal digits.
RECURSIVE IntOf(_)
IntOf(part) ==
    IF part = <<>> THEN 0
    ELSE IntOf(SubSeq(part, 1, Len(part) - 1)) * 10 + DigitValue(part[Len(part)])

\* int() raises ValueError on an empty part or one that is not a number.
IsNumber(part) == part # <<>> /\ \A i \in 1..Len(part) : IsDigit(part[i])

\* Mutant of total_ms: a minute is taken for 6000 ms.
total_ms_ShortMinute(hours, minutes, seconds, milliseconds) ==
    hours * 3600000 + minutes * 6000 + seconds * 1000 + milliseconds

\* lines 27-30
total_ms(hours, minutes, seconds, milliseconds) ==
    hours * 3600000 + minutes * 60000 + seconds * 1000 + milliseconds

\* The parts are converted in the order hours, minutes, seconds, milliseconds
\* (lines 21-24): the first part that is missing raises IndexError, the first
\* that is not a number ValueError.
RECURSIVE FirstFailure(_, _)
FirstFailure(time_parts, n) ==
    IF n > 4 THEN "none"
    ELSE IF n > Len(time_parts) THEN "IndexError"
    ELSE IF ~ IsNumber(time_parts[n]) THEN "ValueError"
    ELSE FirstFailure(time_parts, n + 1)

parse_srt_timestamp(text) ==
    LET time_parts == SplitOnColon(ReplaceComma(text), <<>>)
    IN IF FirstFailure(time_parts, 1) # "none"
       THEN Raised(FirstFailure(time_parts, 1))
       ELSE Returned(<<total_ms(IntOf(time_parts[1]), IntOf(time_parts[2]),
                               IntOf(time_parts[3]), IntOf(time_parts[4]))>>)

\* The timestamps parsed: the fields of an SRT time written in decimal with
\* leading zeros, as an SRT file holds them, and two damaged ones.
RECURSIVE Power10(_)
Power10(n) == IF n = 0 THEN 1 ELSE 10 * Power10(n - 1)

Decimal(n, width) ==
    [i \in 1..width |-> Digits[((n \div Power10(width - i)) % 10) + 1]]

SrtText(h, hwidth, m, sec, ms) ==
    Decimal(h, hwidth) \o <<":">> \o Decimal(m, 2) \o <<":">> \o Decimal(sec, 2)
        \o <<",">> \o Decimal(ms, 3)

SrtHours == {0, 1, 12}

\* The hours are written with one digit or two.
SrtHourWidths(h) == IF h < 10 THEN {1, 2} ELSE {2}

SrtMinutes == {0, 7, 59}

SrtSeconds == {0, 9, 59}

SrtMillis == {0, 5, 40, 999}

SrtTimestamps ==
    UNION { { SrtText(h, hw, m, sec, ms) :
                hw \in SrtHourWidths(h), m \in SrtMinutes,
                sec \in SrtSeconds, ms \in SrtMillis } : h \in SrtHours }

DamagedTimestamps ==
    { <<"0", ":", "0", "0", ":", "0", "1">>,
      <<"0", ":", "0", "0", ":", "0", "1", ",", "x">> }

(***************************************************************************)
(* process_video: the words of the clip (transcript.py lines 621-634).     *)
(* The times are in ms: chosen_start_time stands for start_time * 1000.    *)
(***************************************************************************)
Min2(a, b) == IF a <= b THEN a ELSE b

\* min(clip_duration, end_time - start_time) if end_time else clip_duration
ClampedDuration(duration, st, et) ==
    IF et # 0 THEN Min2(duration, et - st) ELSE duration

\* Mutant of SegmentWord: the end of the word is handed over as it is.
SegmentWord_EndKept(word, clip_end_ms) ==
    [text |-> word.text, start |-> word.start, end |-> word.end]

\* The dict appended for a word (lines 629-633).
SegmentWord(word, clip_end_ms) ==
    [text |-> word.text, start |-> word.start, end |-> Min2(word.end, clip_end_ms)]

\* The loop of lines 627-633 from word i on.
RECURSIVE SegmentWordsFrom(_, _, _, _)
SegmentWordsFrom(ws, i, clip_start_ms, clip_end_ms) ==
    IF i > Len(ws) THEN <<>>
    ELSE (IF clip_start_ms <= ws[i].start /\ ws[i].start <= clip_end_ms
          THEN <<SegmentWord(ws[i], clip_end_ms)>> ELSE <<>>)
           \o SegmentWordsFrom(ws, i + 1, clip_start_ms, clip_end_ms)

\* clip_duration of the command line, in ms: none at all, one second and the
\* default of 30 s.
ClipDurations == {0, 1000, 30000}

(***************************************************************************)
(* utils/text_utils.get_segment_texts                                      *)
(***************************************************************************)
\* words[:n]
FirstWords(ws, n) == SubSeq(ws, 1, Min2(n, Len(ws)))

\* words[-n:]; for n = 0 this is words[0:], the whole list.
LastWords(ws, n) ==
    IF n = 0 THEN ws ELSE SubSeq(ws, Len(ws) - Min2(n, Len(ws)) + 1, Len(ws))

get_segment_texts(text) ==
    LET text_words == Split(text)
        mid == Len(text_words) \div 2
    IN IF Len(text_words) <= 10
       THEN << Join(FirstWords(text_words, Min2(5, mid))),
               Join(LastWords(text_words, Min2(5, Len(text_words) - mid))) >>
       ELSE << Join(FirstWords(text_words, 5)), Join(LastWords(text_words, 5)) >>

\* The texts split: n one-letter words from the letter after `from` on, with
\* one or two spaces between them and with or without a space in front.
LetterWords(n, from) == [i \in 1..n |-> <<LowerCase[from + i]>>]

RECURSIVE JoinWith(_, _)
JoinWith(ws, sep) ==
    IF ws = <<>> THEN <<>>
    ELSE IF Len(ws) = 1 THEN ws[1]
    ELSE ws[1] \o sep \o JoinWith(Tail(ws), sep)

FullTexts ==
    { lead \o JoinWith(LetterWords(n, from), sep) :
        n \in 0..MaxTextWords, from \in 0..2,
        sep \in { <<" ">>, <<" ", " ">> }, lead \in { <<>>, <<" ">> } }

(***************************************************************************)
(* The calls.  One search or one render is made on a Word Timeline.        *)
(***************************************************************************)
NoText == <<>>

\* Python's None where a text is expected: it is no text, not even the empty
\* one.  An optional number is the empty sequence or the number alone.
None == <<"None">>

(***************************************************************************)
(* The files of a clip.  A path is modelled by its role; the disk is the   *)
(* set of the paths at which a file exists.  The download (yt_dlp), the    *)
(* encoders (moviepy, ffmpeg) and os.remove are the environment: each call *)
(* draws what they do from the outcomes they can have.                     *)
(***************************************************************************)
NoPath == "none"
BasePath == "base"                    \* base_output_path
FinalPath == "final"                  \* final_output_path of the handler
SrtPath == "srt"                      \* srt_output_path
CliFinalPath == "final_cli"           \* final_output_path of transcript.py, subtitles requested
TempPath == "temp"                    \* temp_file of the two-pass render

ReturnedPath(path) == [exc |-> "none", value |-> path]

RaisedNoPath(e) == [exc |-> e, value |-> NoPath]

\* ydl.extract_info raises; the file prepare_filename names is missing; the
\* download is at base_output_path; it is elsewhere and os.rename moves it,
\* or os.rename raises.
Downloads == {"raises", "missing", "in_place", "renamed", "rename_fails"}

DownloadFailed(env) == env.download \in {"raises", "missing", "rename_fails"}

\* The disk after the download: a download that raises may leave a part of
\* the clip at base_output_path.
Downloaded(d, env) ==
    CASE env.download \in {"in_place", "renamed"} -> d \cup {BasePath}
      [] env.download = "raises" /\ env.partial -> d \cup {BasePath}
      [] OTHER -> d

\* The paths the handler removes when the extraction failed.
CleanupPaths_NoSrt == {BasePath, FinalPath}

CleanupPaths == {BasePath, FinalPath, SrtPath}

\* The test that lets extract_clip return the subtitled clip.
SubtitledReady_Unchecked(success, final, d) == success

SubtitledReady(success, final, d) == success /\ final \in d

\* What the calls of extract_clip can meet.  subtitles is what the subtitle
\* processing did (returned True, returned False, raised); written tells if
\* it left a file at the final path; remove_ok tells if os.remove succeeds.
ClipEnvs ==
    [download : Downloads, partial : BOOLEAN, subtitles : {"true", "false", "raises"},
     written : BOOLEAN, remove_ok : BOOLEAN]

\* The subtitled clip is ready: remove the base clip and return the final
\* path; an os.remove that raises is caught by the inner handler.
ReturnSubtitled(d, final, env) ==
    IF env.remove_ok
    THEN [disk |-> d \ {BasePath}, outcome |-> ReturnedPath(final)]
    ELSE [disk |-> d, outcome |-> ReturnedPath(BasePath)]

\* YouTubeHandler.extract_clip of handlers/youtube_handler.py.
extract_clip(d, words_given, env) ==
    LET with_srt == IF words_given THEN d \cup {SrtPath} ELSE d
        downloaded == Downloaded(with_srt, env)
        processed == IF env.written THEN downloaded \cup {FinalPath} ELSE downloaded
    IN  IF DownloadFailed(env)
        THEN [disk |-> IF env.remove_ok THEN downloaded \ CleanupPaths ELSE downloaded,
              outcome |-> RaisedNoPath("Exception")]
        ELSE IF /\ env.subtitles # "raises"
                /\ SubtitledReady(env.subtitles = "true", FinalPath, processed)
             THEN ReturnSubtitled(processed, FinalPath, env)
             ELSE [disk |-> processed, outcome |-> ReturnedPath(BasePath)]

\* YouTubeHandler.extract_clip of transcript.py, the one process_video calls.
\* requested is the truth of subtitle_text.
extract_clip_transcript(d, requested, env) ==
    LET final == IF requested THEN CliFinalPath ELSE BasePath
        downloaded == Downloaded(d, env)
        processed == IF requested /\ env.written
                     THEN downloaded \cup {final} ELSE downloaded
    IN  IF DownloadFailed(env)
        THEN [disk |-> IF env.remove_ok THEN downloaded \ {BasePath, final} ELSE downloaded,
              outcome |-> RaisedNoPath("Exception")]
        ELSE IF /\ requested
                /\ env.subtitles # "raises"
                /\ SubtitledReady(env.subtitles = "true", final, processed)
             THEN ReturnSubtitled(processed, final, env)
             ELSE [disk |-> processed, outcome |-> ReturnedPath(BasePath)]

\* What the two-pass render can meet: what each pass returned, if it left a
\* file at its output path, and if os.remove succeeds.
TwoPassEnvs ==
    [first : BOOLEAN, first_written : BOOLEAN, second : BOOLEAN,
     second_written : BOOLEAN, remove_ok : BOOLEAN]

\* The removal of temp_file that both exits of the two-pass render make; an
\* os.remove that raises leaves the function by its exception.
RemoveTemp(d, env, returned) ==
    IF TempPath \in d /\ ~env.remove_ok
    THEN [disk |-> d, outcome |-> RaisedNoPath("OSError")]
    ELSE [disk |-> d \ {TempPath}, outcome |-> ReturnedPath(returned)]

\* YouTubeHandler.process_video_with_highlights of handlers/youtube_handler_old.py.
two_pass_process_video_with_highlights(d, env) ==
    LET after_first == IF env.first_written THEN d \cup {TempPath} ELSE d
        after_second == IF env.second_written
                        THEN after_first \cup {FinalPath} ELSE after_first
    IN  IF ~env.first
        THEN RemoveTemp(after_first, env, "False")
        ELSE RemoveTemp(after_second, env, "True")

Init ==
    /\ words \in AllTimelines
    /\ op = "none"
    /\ search_phrase = NoText
    /\ start_text = NoText
    /\ end_text = NoText
    /\ similarity_threshold = 0
    /\ window_size = 0
    /\ start_occurrences = <<>>
    /\ end_occurrences = <<>>
    /\ windows = <<>>
    /\ clips = <<>>
    /\ result = Returned(<<>>)
    /\ calls = 0
    /\ earlier_result = Returned(<<>>)
    /\ timestamp = NoText
    /\ chosen_start_time = 0
    /\ chosen_end_time = 0
    /\ clip_duration = 0
    /\ clip_segment_words = <<>>
    /\ pc = "idle"
    /\ arg_search_phrase = None
    /\ arg_start_text = None
    /\ arg_end_text = None
    /\ arg_clip_duration = <<>>
    /\ pv_occurrences = <<>>
    /\ choice = None
    /\ audio_downloaded = FALSE
    /\ extract_clip_calls = 0
    /\ input_full_text = NoText
    /\ disk = {}
    /\ clip_env = [call |-> "none"]
    /\ clip_outcome = [exc |-> "none", value |-> NoPath]

\* Mutant of CallFindPhraseOccurrences: the occurrences list outlives the
\* call, so a later call returns the earlier occurrences too.
CallFindPhraseOccurrences_Retaining(q, t) ==
    /\ op' = "find_phrase_occurrences"
    /\ search_phrase' = q
    /\ similarity_threshold' = t
    /\ result' =
          IF result.exc = "none" /\ find_phrase_occurrences(words, q, t).exc = "none"
          THEN Returned(result.value \o find_phrase_occurrences(words, q, t).value)
          ELSE find_phrase_occurrences(words, q, t)
    /\ calls' = calls + 1
    /\ earlier_result' = result
    /\ UNCHANGED <<words, start_text, end_text, window_size,
                   start_occurrences, end_occurrences, windows, clips>>
    /\ UNCHANGED <<utilityVars, auxVars>>

\* One call of find_phrase_occurrences(transcript, q, t): occurrences is a
\* fresh local list (line 22), transcript.words is only read.
CallFindPhraseOccurrences(q, t) ==
    /\ op' = "find_phrase_occurrences"
    /\ search_phrase' = q
    /\ similarity_threshold' = t
    /\ result' = find_phrase_occurrences(words, q, t)
    /\ calls' = calls + 1
    /\ earlier_result' = result
    /\ UNCHANGED <<words, start_text, end_text, window_size,
                   start_occurrences, end_occurrences, windows, clips>>
    /\ UNCHANGED <<utilityVars, auxVars>>

\* One call of find_text_segment(transcript, start_text, end_text, t).
CallFindTextSegment(anchors, t) ==
    /\ op' = "find_text_segment"
    /\ start_text' = anchors[1]
    /\ end_text' = anchors[2]
    /\ similarity_threshold' = t
    /\ start_occurrences' = find_phrase_occurrences(words, anchors[1], t).value
    /\ end_occurrences' =
          IF find_phrase_occurrences(words, anchors[1], t).exc # "none" THEN <<>>
          ELSE find_phrase_occurrences(words, anchors[2], t).value
    /\ result' = find_text_segment(words, anchors[1], anchors[2], t)
    /\ calls' = calls + 1
    /\ earlier_result' = result
    /\ UNCHANGED <<words, search_phrase, window_size, windows, clips>>
    /\ UNCHANGED <<utilityVars, auxVars>>

FindPhraseOccurrences ==
    \E q \in PhrasesFor(words), t \in ThresholdsFor(words) :
        /\ op = "none"
        /\ CallFindPhraseOccurrences(q, t)

FindTextSegment ==
    \E anchors \in AnchorPairsFor(words), t \in ThresholdsFor(words) :
        /\ op = "none"
        /\ CallFindTextSegment(anchors, t)

\* The transcripts on which several searches are made one after the other.
SharedTimelines == { ScenarioTimeline, SevenWords }

Searches == { "find_phrase_occurrences", "find_text_segment" }

\* A further search on the same searcher and transcript, after any search.
FindPhraseOccurrencesAgain ==
    \E q \in PhrasesFor(words), t \in ThresholdsFor(words) :
        /\ op \in Searches
        /\ words \in SharedTimelines
        /\ calls < MaxCalls
        /\ CallFindPhraseOccurrences(q, t)

FindTextSegmentAgain ==
    \E anchors \in AnchorPairsFor(words), t \in ThresholdsFor(words) :
        /\ op \in Searches
        /\ words \in SharedTimelines
        /\ calls < MaxCalls
        /\ CallFindTextSegment(anchors, t)

\* words[0] of an empty list raises IndexError (line 122), which the handler
\* catches to return False (lines 185-188); otherwise every window is
\* scheduled and True is returned.
ProcessVideoWithHighlights ==
    \E size \in WindowSizes :
        /\ op = "none"
        /\ op' = "process_video_with_highlights"
        /\ window_size' = size
        /\ IF words = <<>>
           THEN /\ windows' = <<>>
                /\ clips' = <<>>
                /\ result' = Returned(<<FALSE>>)
           ELSE /\ windows' = WindowsFrom(words, 0, size)
                /\ clips' = ClipsFrom(WindowsFrom(words, 0, size), 1, words[1].start)
                /\ result' = Returned(<<TRUE>>)
        /\ UNCHANGED <<words, search_phrase, start_text, end_text,
                       similarity_threshold, start_occurrences, end_occurrences,
                       calls, earlier_result>>
        /\ UNCHANGED <<utilityVars, auxVars>>

\* parse_srt_timestamp(timestamp), as parse_srt_file calls it on the two times
\* of a subtitle; it reads no transcript.
ParseSrtTimestamp ==
    \E text \in SrtTimestamps \cup DamagedTimestamps :
        /\ op = "none"
        /\ words = <<>>
        /\ op' = "parse_srt_timestamp"
        /\ timestamp' = text
        /\ result' = parse_srt_timestamp(text)
        /\ UNCHANGED <<words, chosen_start_time, chosen_end_time, clip_duration, clip_segment_words>>
        /\ UNCHANGED <<callVars, auxVars>>
        /\ UNCHANGED pipelineVars

\* The clip generation phase of process_video for a chosen match, which spans
\* the words i..j of the transcript: the duration is cut to the match and the
\* words of the clip are collected for extract_clip.
ClipWords ==
    \E i \in 1..Len(words), duration \in ClipDurations :
        \E j \in i..Len(words) :
            LET st == words[i].start
                et == words[j].end
                clamped == ClampedDuration(duration, st, et)
                clip_end_ms == st + clamped
                clip_start_ms == st
            IN /\ op = "none"
               /\ op' = "process_video"
               /\ chosen_start_time' = st
               /\ chosen_end_time' = et
               /\ clip_duration' = clamped
               /\ clip_segment_words' = SegmentWordsFrom(words, 1, clip_start_ms, clip_end_ms)
               /\ result' = Returned(<<>>)
               /\ UNCHANGED <<words, timestamp>>
               /\ UNCHANGED <<callVars, auxVars>>
               /\ UNCHANGED pipelineVars

(***************************************************************************)
(* transcript.process_video, step by step.  The transcript is the one of   *)
(* the documented scenarios.                                               *)
(***************************************************************************)
\* bool(x) of an argument that is None or a text.
Truthy(x) == x # None /\ x # <<>>

\* A phrase of six words.
SixWords ==
    <<"a", " ", "b", " ", "c", " ", "a", " ", "b", " ", "c">>

\* The values of search_phrase, of start_text and end_text, and of
\* clip_duration (in ms; None, the empty sequence, when --clip-duration is 0).
ArgPhrases == { None, <<>>, Hello \o <<" ">> \o World, Xylophone, SixWords }

ArgAnchors == { None, Hello, Today }

ArgClipDurations == { <<>>, <<30000>> }

\* The default of --threshold.
DefaultThreshold == 80

\* except Exception: print the error and sys.exit(1) (lines 655-657).
Exit1 ==
    /\ pc' = "exit1"
    /\ UNCHANGED <<pv_occurrences, choice, extract_clip_calls>>

\* The checks of the arguments (lines 536-540): each raises ValueError.
ArgumentsRejected_LoneAnchorOnly(phrase, st, et) == Truthy(st) # Truthy(et)

ArgumentsRejected(phrase, st, et) ==
    \/ Truthy(phrase) /\ (Truthy(st) \/ Truthy(et))
    \/ Truthy(st) # Truthy(et)

\* The call and the checks of the arguments (lines 536-540).
PVStart ==
    \E phrase \in ArgPhrases, st \in ArgAnchors, et \in ArgAnchors,
       duration \in ArgClipDurations :
        /\ op = "none"
        /\ words = ScenarioTimeline
        /\ op' = "main"
        /\ arg_search_phrase' = phrase
        /\ arg_start_text' = st
        /\ arg_end_text' = et
        /\ arg_clip_duration' = duration
        /\ IF ArgumentsRejected(phrase, st, et)
           THEN Exit1
           ELSE /\ pc' = "setup"
                /\ UNCHANGED <<pv_occurrences, choice, extract_clip_calls>>
        /\ UNCHANGED <<words, result, audio_downloaded>>
        /\ UNCHANGED <<callVars, auxVars>>
        /\ UNCHANGED <<timestamp, chosen_start_time, chosen_end_time, clip_duration,
                       clip_segment_words>>

\* get_video_id, download_audio and the transcription (lines 543-553): the
\* URL is a video's or not, and the download succeeds or raises.
PVSetup ==
    \E url_valid \in BOOLEAN, download_ok \in BOOLEAN :
        /\ pc = "setup"
        /\ audio_downloaded' = url_valid
        /\ IF url_valid /\ download_ok
           THEN /\ pc' = "transcribed"
                /\ UNCHANGED <<pv_occurrences, choice, extract_clip_calls>>
           ELSE Exit1
        /\ UNCHANGED <<words, op, result, arg_search_phrase, arg_start_text,
                       arg_end_text, arg_clip_duration>>
        /\ UNCHANGED <<callVars, auxVars>>
        /\ UNCHANGED <<timestamp, chosen_start_time, chosen_end_time, clip_duration,
                       clip_segment_words>>

\* The search phase in phrase mode (lines 557-565): no match ends the run.
PVSearchPhrase ==
    /\ pc = "transcribed"
    /\ Truthy(arg_search_phrase)
    /\ search_phrase' = arg_search_phrase
    /\ similarity_threshold' = DefaultThreshold
    /\ result' = find_phrase_occurrences(words, arg_search_phrase, DefaultThreshold)
    /\ pv_occurrences' = result'.value
    /\ pc' = IF result'.exc # "none" THEN "exit1"
             ELSE IF result'.value = <<>> THEN "returned"
             ELSE "found"
    /\ UNCHANGED <<chosen_start_time, chosen_end_time, start_text, end_text,
                   start_occurrences, end_occurrences>>
    /\ UNCHANGED <<words, op, arg_search_phrase, arg_start_text, arg_end_text,
                   arg_clip_duration, choice, audio_downloaded, extract_clip_calls>>
    /\ UNCHANGED <<window_size, windows, clips, calls, earlier_result>>
    /\ UNCHANGED <<timestamp, clip_duration, clip_segment_words>>
    /\ UNCHANGED auxVars

\* The search phase in segment mode (lines 577-595).  Without start_text
\* the searcher calls None.lower(), an AttributeError; no segment ends the
\* run; a segment becomes the only occurrence and sets start_time, end_time.
PVSearchSegment ==
    /\ pc = "transcribed"
    /\ ~ Truthy(arg_search_phrase)
    /\ start_text' = arg_start_text
    /\ end_text' = arg_end_text
    /\ similarity_threshold' = DefaultThreshold
    /\ result' = IF arg_start_text = None THEN Raised("AttributeError")
                 ELSE find_text_segment(words, arg_start_text, arg_end_text,
                                        DefaultThreshold)
    /\ pv_occurrences' = result'.value
    /\ pc' = IF result'.exc # "none" THEN "exit1"
             ELSE IF result'.value = <<>> THEN "returned"
             ELSE "found"
    /\ chosen_start_time' =
          IF result'.value # <<>> THEN result'.value[1].start_time ELSE chosen_start_time
    /\ chosen_end_time' =
          IF result'.value # <<>> THEN result'.value[1].end_time ELSE chosen_end_time
    /\ UNCHANGED <<search_phrase, start_occurrences, end_occurrences>>
    /\ UNCHANGED <<words, op, arg_search_phrase, arg_start_text, arg_end_text,
                   arg_clip_duration, choice, audio_downloaded, extract_clip_calls>>
    /\ UNCHANGED <<window_size, windows, clips, calls, earlier_result>>
    /\ UNCHANGED <<timestamp, clip_duration, clip_segment_words>>
    /\ UNCHANGED auxVars

\* What the user types, after strip(): a match number, a number that is no
\* match, 'n', 'N', 'y', 'yes', 'no', 'x' and nothing at all.
Answers ==
    { <<"1">>, <<"7">>, <<"n">>, <<"N">>, <<"y">>, <<"y", "e", "s">>,
      <<"n", "o">>, <<"x">>, <<>> }

TextN == <<"n">>

Affirmative == { <<"y">>, <<"y", "e", "s">>, <<>> }

\* clip_duration is None: the clip generation phase is skipped (line 601).
PVNoClip ==
    /\ pc = "found"
    /\ arg_clip_duration = <<>>
    /\ pc' = "cleanup"
    /\ UNCHANGED <<words, op, result, arg_search_phrase, arg_start_text, arg_end_text,
                   arg_clip_duration, pv_occurrences, choice, audio_downloaded,
                   extract_clip_calls>>
    /\ UNCHANGED <<callVars, auxVars>>
    /\ UNCHANGED <<timestamp, chosen_start_time, chosen_end_time, clip_duration,
                   clip_segment_words>>

\* One turn of the loop of lines 604-615: 'n' and a match number leave the
\* loop, every other answer asks again.
PVAnswerPhrase ==
    \E answer \in Answers :
        LET typed == Lower(answer)
            valid == /\ typed # TextN
                     /\ IsNumber(typed)
                     /\ 1 <= IntOf(typed)
                     /\ IntOf(typed) <= Len(pv_occurrences)
        IN /\ pc = "found"
           /\ arg_clip_duration # <<>>
           /\ Truthy(arg_search_phrase)
           /\ choice' = typed
           /\ pc' = IF typed = TextN \/ valid THEN "chosen" ELSE "found"
           /\ chosen_start_time' =
                 IF valid THEN pv_occurrences[IntOf(typed)].start_time
                 ELSE chosen_start_time
           /\ chosen_end_time' =
                 IF valid THEN pv_occurrences[IntOf(typed)].end_time
                 ELSE chosen_end_time
           /\ UNCHANGED <<words, op, result, arg_search_phrase, arg_start_text,
                          arg_end_text, arg_clip_duration, pv_occurrences,
                          audio_downloaded, extract_clip_calls>>
           /\ UNCHANGED <<callVars, auxVars>>
           /\ UNCHANGED <<timestamp, clip_duration, clip_segment_words>>

\* The single question of segment mode (lines 617-619); start_time and
\* end_time are the segment's whatever the answer.
PVAnswerSegment ==
    \E answer \in Answers :
        /\ pc = "found"
        /\ arg_clip_duration # <<>>
        /\ ~ Truthy(arg_search_phrase)
        /\ choice' = Lower(answer)
        /\ pc' = "chosen"
        /\ chosen_start_time' =
              IF Lower(answer) \in Affirmative THEN pv_occurrences[1].start_time
              ELSE chosen_start_time
        /\ chosen_end_time' =
              IF Lower(answer) \in Affirmative THEN pv_occurrences[1].end_time
              ELSE chosen_end_time
        /\ UNCHANGED <<words, op, result, arg_search_phrase, arg_start_text,
                       arg_end_text, arg_clip_duration, pv_occurrences,
                       audio_downloaded, extract_clip_calls>>
        /\ UNCHANGED <<callVars, auxVars>>
        /\ UNCHANGED <<timestamp, clip_duration, clip_segment_words>>

\* if choice != 'n' (lines 621-645): the words of the clip are collected and
\* extract_clip is called; it returns the clip's path or raises.
PVClip ==
    \E extract_ok \in BOOLEAN :
        LET clamped == ClampedDuration(arg_clip_duration[1], chosen_start_time,
                                       chosen_end_time)
        IN /\ pc = "chosen"
           /\ choice # TextN
           /\ clip_duration' = clamped
           /\ clip_segment_words' =
                 SegmentWordsFrom(words, 1, chosen_start_time,
                                  chosen_start_time + clamped)
           /\ extract_clip_calls' = extract_clip_calls + 1
           /\ pc' = IF extract_ok THEN "cleanup" ELSE "exit1"
           /\ UNCHANGED <<words, op, result, arg_search_phrase, arg_start_text,
                          arg_end_text, arg_clip_duration, pv_occurrences, choice,
                          audio_downloaded>>
           /\ UNCHANGED <<callVars, auxVars>>
           /\ UNCHANGED <<timestamp, chosen_start_time, chosen_end_time>>

\* choice == 'n': no clip.
PVSkipClip ==
    /\ pc = "chosen"
    /\ choice = TextN
    /\ pc' = "cleanup"
    /\ UNCHANGED <<words, op, result, arg_search_phrase, arg_start_text, arg_end_text,
                   arg_clip_duration, pv_occurrences, choice, audio_downloaded,
                   extract_clip_calls>>
    /\ UNCHANGED <<callVars, auxVars>>
    /\ UNCHANGED <<timestamp, chosen_start_time, chosen_end_time, clip_duration,
                   clip_segment_words>>

\* The cleanup and the normal end of the run (lines 647-653).
PVCleanup ==
    /\ pc = "cleanup"
    /\ pc' = "done"
    /\ UNCHANGED <<words, op, result, arg_search_phrase, arg_start_text, arg_end_text,
                   arg_clip_duration, pv_occurrences, choice, audio_downloaded,
                   extract_clip_calls>>
    /\ UNCHANGED <<callVars, auxVars>>
    /\ UNCHANGED <<timestamp, chosen_start_time, chosen_end_time, clip_duration,
                   clip_segment_words>>

PipelineNext ==
    \/ PVStart
    \/ PVSetup
    \/ PVSearchPhrase
    \/ PVSearchSegment
    \/ PVNoClip
    \/ PVAnswerPhrase
    \/ PVAnswerSegment
    \/ PVClip
    \/ PVSkipClip
    \/ PVCleanup

\* get_segment_texts(full_text); it reads no transcript.
GetSegmentTexts ==
    \E text \in FullTexts :
        /\ op = "none"
        /\ words = <<>>
        /\ op' = "get_segment_texts"
        /\ input_full_text' = text
        /\ result' = Returned(get_segment_texts(text))
        /\ UNCHANGED <<words, callVars, utilityVars, fileVars>>

\* One call of extract_clip of the handler, on the disk the calls before left.
ExtractClip ==
    \E words_given \in BOOLEAN, env \in ClipEnvs :
        LET call == extract_clip(disk, words_given, env)
        IN  /\ op \in {"none", "extract_clip", "two_pass"}
            /\ words = <<>>
            /\ op' = "extract_clip"
            /\ disk' = call.disk
            /\ clip_outcome' = call.outcome
            /\ clip_env' = [call |-> "handler", given |-> words_given, env |-> env]
            /\ UNCHANGED <<words, result, callVars, utilityVars, input_full_text>>

\* One call of extract_clip of transcript.py.
ExtractClipTranscript ==
    \E requested \in BOOLEAN, env \in ClipEnvs :
        LET call == extract_clip_transcript(disk, requested, env)
        IN  /\ op \in {"none", "extract_clip", "two_pass"}
            /\ words = <<>>
            /\ op' = "extract_clip"
            /\ disk' = call.disk
            /\ clip_outcome' = call.outcome
            /\ clip_env' = [call |-> "transcript", given |-> requested, env |-> env]
            /\ UNCHANGED <<words, result, callVars, utilityVars, input_full_text>>

\* One call of the two-pass render.  A pass returns True only if its output
\* file exists (execute_ffmpeg, line 193).
TwoPassProcessVideoWithHighlights ==
    \E env \in TwoPassEnvs :
        LET call == two_pass_process_video_with_highlights(disk, env)
        IN  /\ op \in {"none", "extract_clip", "two_pass"}
            /\ words = <<>>
            /\ env.first => (env.first_written \/ TempPath \in disk)
            /\ env.second => (env.second_written \/ FinalPath \in disk)
            /\ op' = "two_pass"
            /\ disk' = call.disk
            /\ clip_outcome' = call.outcome
            /\ clip_env' = [call |-> "two_pass", given |-> FALSE, env |-> env]
            /\ UNCHANGED <<words, result, callVars, utilityVars, input_full_text>>

ClipFileNext ==
    \/ ExtractClip
    \/ ExtractClipTranscript
    \/ TwoPassProcessVideoWithHighlights

Next ==
    \/ FindPhraseOccurrences
    \/ FindTextSegment
    \/ ProcessVideoWithHighlights
    \/ FindPhraseOccurrencesAgain
    \/ FindTextSegmentAgain
    \/ ParseSrtTimestamp
    \/ ClipWords
    \/ PipelineNext
    \/ GetSegmentTexts
    \/ ClipFileNext

Spec == Init /\ [][Next]_vars

\* One component at a time: the calls of the phrase matcher, of the segment
\* resolver and of the caption windower on every timeline.
MatcherSpec == Init /\ [][FindPhraseOccurrences]_vars

ResolverSpec == Init /\ [][FindTextSegment]_vars

WindowerSpec == Init /\ [][ProcessVideoWithHighlights]_vars

\* The two searches of FuzzySearcher.
SearcherSpec == Init /\ [][FindPhraseOccurrences \/ FindTextSegment]_vars

\* Searches made one after the other, in any order, on one shared transcript.
SharedInit == Init /\ words \in SharedTimelines

SharedSearchNext ==
    \/ FindPhraseOccurrences
    \/ FindTextSegment
    \/ FindPhraseOccurrencesAgain
    \/ FindTextSegmentAgain

SharedSearchSpec == SharedInit /\ [][SharedSearchNext]_vars

\* The parsing of SRT times.
SrtInit == Init /\ words = <<>>

SrtSpec == SrtInit /\ [][ParseSrtTimestamp]_vars

\* The collection of the words of a clip.
ClipSpec == Init /\ [][ClipWords]_vars

\* The anchors taken from a full text.
SegmentTextsSpec == SrtInit /\ [][GetSegmentTexts]_vars

\* One run of process_video.
PipelineInit == Init /\ words = ScenarioTimeline

PipelineSpec == PipelineInit /\ [][PipelineNext]_vars

\* The calls that write and remove the files of a clip.
ClipFileSpec == SrtInit /\ [][ClipFileNext]_vars

(***************************************************************************)
(* Vocabulary of the properties.                                           *)
(***************************************************************************)
PhraseReturned == op = "find_phrase_occurrences" /\ result.exc = "none"

SegmentCalled == op = "find_text_segment"

SegmentReturned == SegmentCalled /\ result.exc = "none" /\ result.value # <<>>

TokenCount(q) == Len(Split(Lower(q)))

WindowText(i, k) == Join([j \in 1..k |-> words[i + j].text])

WindowScore(q, i) == ScoreOf(Lower(q), WindowText(i, TokenCount(q)))

\* The windows (0-based first index) of as many words as q has tokens whose
\* score reaches threshold t.
QualifyingWindows(q, t) ==
    { i \in 0..(Len(words) - TokenCount(q)) : RatGeq(WindowScore(q, i), Rat(t, 1)) }

IsKept(q, i) ==
    \E a \in 1..Len(result.value) : result.value[a].start_time = words[i + 1].start

Near(t1, t2) == AbsDiff(t1, t2) < 500

StartOccs == start_occurrences

EndOccs == end_occurrences

AcceptedPairs ==
    { p \in (1..Len(StartOccs)) \X (1..Len(EndOccs)) :
        EndOccs[p[2]].end_time > StartOccs[p[1]].start_time }

\* The first accepted pair in the lexicographic order of (start index, end index).
FirstPair ==
    CHOOSE p \in AcceptedPairs :
        \A q \in AcceptedPairs : p[1] < q[1] \/ (p[1] = q[1] /\ p[2] <= q[2])

TheSegment == result.value[1]

(***************************************************************************)
(* C1: in the sequence find_phrase_occurrences returns, no two occurrences *)
(* are within 0.5 s of each other in start time while one has a strictly   *)
(* higher score than the other.                                            *)
(***************************************************************************)
C1_NoDominatedNeighbourKept ==
    PhraseReturned =>
        \A a, b \in 1..Len(result.value) :
            a # b =>
                ~ ( /\ Near(result.value[a].start_time, result.value[b].start_time)
                    /\ RatGt(result.value[a].score, result.value[b].score) )

\* Two occurrences are kept and a qualifying window with a strictly lower
\* score within 0.5 s of a kept one was dropped.
C1_Witness ==
    /\ PhraseReturned
    /\ Len(result.value) >= 2
    /\ \E i \in QualifyingWindows(search_phrase, similarity_threshold) :
          /\ ~ IsKept(search_phrase, i)
          /\ \E a \in 1..Len(result.value) :
                /\ Near(result.value[a].start_time, words[i + 1].start)
                /\ RatGt(result.value[a].score, WindowScore(search_phrase, i))

(***************************************************************************)
(* C2: threshold monotonicity.  For the same timeline and phrase, a call   *)
(* with a threshold at least as high returns (after sorting and overlap    *)
(* filtering) no more occurrences.                                         *)
(***************************************************************************)
C2_ThresholdMonotone ==
    PhraseReturned =>
        \A t2 \in Thresholds :
            t2 >= similarity_threshold =>
                LET r2 == find_phrase_occurrences(words, search_phrase, t2)
                IN r2.exc = "none" /\ Len(r2.value) <= Len(result.value)

\* A higher threshold returns strictly fewer, but some, occurrences, and the
\* overlap filter dropped a qualifying window of the call.
C2_Witness ==
    /\ PhraseReturned
    /\ Len(result.value) < Cardinality(QualifyingWindows(search_phrase, similarity_threshold))
    /\ \E t2 \in Thresholds :
          /\ t2 > similarity_threshold
          /\ LET r2 == find_phrase_occurrences(words, search_phrase, t2)
             IN r2.value # <<>> /\ Len(r2.value) < Len(result.value)

(***************************************************************************)
(* C3: the segment find_text_segment returns is built from the first pair, *)
(* in the order (start occurrence, then end occurrence), whose end         *)
(* occurrence ends after the start occurrence starts; when the top-ranked  *)
(* start occurrence has a compatible end occurrence the segment starts     *)
(* there.                                                                  *)
(***************************************************************************)
C3_FirstAcceptablePair ==
    SegmentReturned =>
        /\ AcceptedPairs # {}
        /\ TheSegment.start_time = StartOccs[FirstPair[1]].start_time
        /\ TheSegment.end_time = EndOccs[FirstPair[2]].end_time
        /\ (\E j \in 1..Len(EndOccs) : <<1, j>> \in AcceptedPairs)
              => TheSegment.start_time = StartOccs[1].start_time

\* The top start occurrence is incompatible with the top end occurrence but
\* compatible with the second, while a lower start occurrence is compatible
\* with the top end occurrence.
C3_Witness ==
    /\ SegmentReturned
    /\ FirstPair = <<1, 2>>
    /\ <<2, 1>> \in AcceptedPairs

(***************************************************************************)
(* C4: segment validity.  Every segment find_text_segment returns ends     *)
(* strictly after it starts.                                               *)
(***************************************************************************)
C4_SegmentValid ==
    SegmentReturned => TheSegment.end_time > TheSegment.start_time

\* A segment is returned after a pair whose end does not come after its
\* start was passed over.
C4_Witness ==
    /\ SegmentReturned
    /\ <<1, 1>> \notin AcceptedPairs

(***************************************************************************)
(* C5: for anchor texts with at least one token, find_text_segment does    *)
(* not raise, and it returns none exactly when the start search or the end *)
(* search yields no occurrence or no pair has its end occurrence ending    *)
(* after its start occurrence starts; otherwise it returns a segment.      *)
(***************************************************************************)
C5_NoneExactlyWhenNoPair ==
    (SegmentCalled /\ TokenCount(start_text) > 0 /\ TokenCount(end_text) > 0) =>
        /\ result.exc = "none"
        /\ (result.value = <<>>) <=>
              (StartOccs = <<>> \/ EndOccs = <<>> \/ AcceptedPairs = {})

\* Both searches find occurrences, yet no pair is compatible and none is
\* returned.
C5_Witness ==
    /\ SegmentCalled
    /\ result = Returned(<<>>)
    /\ TokenCount(start_text) > 0 /\ TokenCount(end_text) > 0
    /\ StartOccs # <<>> /\ EndOccs # <<>>
    /\ AcceptedPairs = {}

(***************************************************************************)
(* C6: the text of a returned segment is the texts, joined by single       *)
(* spaces in timeline order, of exactly the words whose start lies in the  *)
(* inclusive range [start, end] of the segment, and its score is the mean  *)
(* of the scores of the two occurrences it is built from.  On the scenario *)
(* timeline, "hello" .. "today" at threshold 80 gives 0.0 - 1.5 s with     *)
(* text "hello world today".                                               *)
(***************************************************************************)
WordsInSegment ==
    { x \in 1..Len(words) :
        TheSegment.start_time <= words[x].start /\ words[x].start <= TheSegment.end_time }

\* The n-th word, in timeline order, of the segment.
NthInSegment(n) ==
    CHOOSE x \in WordsInSegment : Cardinality({ y \in WordsInSegment : y <= x }) = n

C6_SegmentTextAndScore ==
    SegmentReturned =>
        LET tokens == Split(TheSegment.text)
            so == StartOccs[FirstPair[1]].score
            eo == EndOccs[FirstPair[2]].score
            sc == TheSegment.score
        IN /\ Len(tokens) = Cardinality(WordsInSegment)
           /\ \A n \in 1..Len(tokens) : tokens[n] = words[NthInSegment(n)].text
           /\ TheSegment.text = Join(tokens)
           /\ 2 * sc.n * so.d * eo.d = sc.d * (so.n * eo.d + eo.n * so.d)
           /\ (words = ScenarioTimeline /\ start_text = Hello /\ end_text = Today
                 /\ similarity_threshold = 80)
                => /\ TheSegment.start_time = 0
                   /\ TheSegment.end_time = 1500
                   /\ TheSegment.text = Hello \o <<" ">> \o World \o <<" ">> \o Today

\* A segment is returned that has a word starting exactly at its end, a word
\* outside it, and two occurrences of different scores.
C6_Witness ==
    /\ SegmentReturned
    /\ \E x \in WordsInSegment : words[x].start = TheSegment.end_time
    /\ Cardinality(WordsInSegment) < Len(words)
    /\ Cardinality(WordsInSegment) >= 2
    /\ StartOccs[FirstPair[1]].score # EndOccs[FirstPair[2]].score

(***************************************************************************)
(* C7: every occurrence find_phrase_occurrences returns is the candidate   *)
(* of a window of k consecutive words (k the number of tokens of the       *)
(* phrase, the window starting at index 0 .. len(words) - k): it starts at *)
(* the start of the window's first word, ends at the end of its last word, *)
(* carries the window's texts joined by single spaces, and its score is    *)
(* the maximum of the three similarity scores and reaches the threshold.   *)
(* On the scenario timeline "hello world" at threshold 80 returns the one  *)
(* occurrence 0.0 - 1.0 s "hello world".                                   *)
(***************************************************************************)
BestIsMaxOfThree ==
    \A p \in LoweredPhrases :
        \A t \in DOMAIN ScoreTable[p] :
            LET r == compare_phrases(p, t)
            IN /\ \A m \in 1..3 : RatGeq(ScoreTable[p][t], r[m])
               /\ \E m \in 1..3 : ScoreTable[p][t] = r[m]

C7_OccurrencesAreWindows ==
    PhraseReturned =>
        LET k == TokenCount(search_phrase)
        IN /\ BestIsMaxOfThree
           /\ \A a \in 1..Len(result.value) :
                \E i \in 0..(Len(words) - k) :
                    /\ i \in QualifyingWindows(search_phrase, similarity_threshold)
                    /\ result.value[a].start_time = words[i + 1].start
                    /\ result.value[a].end_time = words[i + k].end
                    /\ result.value[a].text = WindowText(i, k)
                    /\ result.value[a].score = WindowScore(search_phrase, i)
           /\ (words = ScenarioTimeline /\ search_phrase = Hello \o <<" ">> \o World
                 /\ similarity_threshold = 80)
                => result.value =
                     << Occurrence(0, 1000, Hello \o <<" ">> \o World, Rat(100, 1)) >>

\* A two-token phrase returns two windows, one of them not the first window
\* and one scoring below 100.
C7_Witness ==
    /\ PhraseReturned
    /\ TokenCount(search_phrase) = 2
    /\ Len(result.value) = 2
    /\ \E a \in 1..2 : result.value[a].score # Rat(100, 1)
    /\ \E a \in 1..2 : result.value[a].end_time = words[Len(words)].end

(***************************************************************************)
(* C8: the returned sequence is in score-descending order and, when some   *)
(* window qualifies, its first occurrence has the maximum score among all  *)
(* qualifying windows.                                                     *)
(***************************************************************************)
C8_ScoreDescending ==
    PhraseReturned =>
        /\ \A a \in 1..(Len(result.value) - 1) :
              RatGeq(result.value[a].score, result.value[a + 1].score)
        /\ \A i \in QualifyingWindows(search_phrase, similarity_threshold) :
              /\ result.value # <<>>
              /\ RatGeq(result.value[1].score, WindowScore(search_phrase, i))

\* The best occurrence comes later in the timeline than the second one.
C8_Witness ==
    /\ PhraseReturned
    /\ Len(result.value) >= 2
    /\ RatGt(result.value[1].score, result.value[2].score)
    /\ result.value[1].start_time > result.value[2].start_time

(***************************************************************************)
(* C9: dedup completeness.  Every qualifying window that is not returned   *)
(* has a returned occurrence starting within 0.5 s of it with an equal or  *)
(* higher score, and the result is not empty when some window qualifies.   *)
(***************************************************************************)
C9_DroppedAreRepresented ==
    PhraseReturned =>
        \A i \in QualifyingWindows(search_phrase, similarity_threshold) :
            /\ result.value # <<>>
            /\ \/ IsKept(search_phrase, i)
               \/ \E a \in 1..Len(result.value) :
                     /\ Near(result.value[a].start_time, words[i + 1].start)
                     /\ RatGeq(result.value[a].score, WindowScore(search_phrase, i))

\* A qualifying window is dropped in favour of a kept occurrence of the same
\* score, while a window exactly 0.5 s from a kept one is kept.
C9_Witness ==
    /\ PhraseReturned
    /\ \E i \in QualifyingWindows(search_phrase, similarity_threshold) :
          /\ ~ IsKept(search_phrase, i)
          /\ \E a \in 1..Len(result.value) :
                /\ Near(result.value[a].start_time, words[i + 1].start)
                /\ result.value[a].score = WindowScore(search_phrase, i)
    /\ \E a, b \in 1..Len(result.value) :
          result.value[a].start_time = result.value[b].start_time + 500

(***************************************************************************)
(* C10: window coverage.  For a window size of at least 1, the word lists  *)
(* of the caption windows, concatenated in window order, are the input     *)
(* word sequence: nothing dropped, duplicated or reordered.                *)
(***************************************************************************)
RECURSIVE Flatten(_)
Flatten(seqs) == IF seqs = <<>> THEN <<>> ELSE seqs[1] \o Flatten(Tail(seqs))

C10_WindowCoverage ==
    (op = "process_video_with_highlights" /\ window_size >= 1) =>
        Flatten(windows) = words

\* Several windows, the last one shorter than the window size.
C10_Witness ==
    /\ op = "process_video_with_highlights"
    /\ Len(windows) >= 2
    /\ Len(windows[Len(windows)]) < window_size
    /\ Len(windows[1]) = window_size

(***************************************************************************)
(* C11: the caption windows are consecutive, non-overlapping chunks of the *)
(* words: window n starts at word (n-1)*window_size, every window but the  *)
(* last has exactly window_size words, the last has between 1 and          *)
(* window_size words, no window is empty, and seven words with a window    *)
(* size of five give windows of five and two words.                        *)
(***************************************************************************)
WindowSizesOf(wins) == [n \in 1..Len(wins) |-> Len(wins[n])]

C11_WindowPartition ==
    (op = "process_video_with_highlights" /\ window_size >= 1) =>
        /\ \A n \in 1..Len(windows) :
              /\ Len(windows[n]) >= 1
              /\ Len(windows[n]) <= window_size
              /\ n < Len(windows) => Len(windows[n]) = window_size
              /\ \A j \in 1..Len(windows[n]) :
                    /\ (n - 1) * window_size + j <= Len(words)
                    /\ windows[n][j] = words[(n - 1) * window_size + j]
        /\ (words = SevenWords /\ window_size = DefaultWindowSize) =>
              WindowSizesOf(windows) = <<5, 2>>

\* Seven words in windows of five: a full window and a shorter last one.
C11_Witness ==
    /\ op = "process_video_with_highlights"
    /\ words = SevenWords
    /\ window_size = DefaultWindowSize
    /\ WindowSizesOf(windows) = <<5, 2>>

(***************************************************************************)
(* C12: for every word of every window exactly one highlight is scheduled  *)
(* over [word.start - clip_start_ms, word.end - clip_start_ms] and one     *)
(* background text over [first.start - clip_start_ms, last.end -           *)
(* clip_start_ms] of its window, where clip_start_ms is the start of the   *)
(* first word of the whole clip; no scheduled time is negative.            *)
(***************************************************************************)
ClipsOf(kind, n, j) ==
    { c \in 1..Len(clips) :
        clips[c].kind = kind /\ clips[c].window = n /\ clips[c].word = j }

ClipEnd(c) == c.start + c.duration

C12_ClipRelativeTimes ==
    (op = "process_video_with_highlights" /\ words # <<>> /\ window_size >= 1) =>
        LET clip_start_ms == words[1].start
        IN /\ Len(clips) = 2 * Len(words)
           /\ \A n \in 1..Len(windows) : \A j \in 1..Len(windows[n]) :
                 /\ \E c \in 1..Len(clips) : ClipsOf("highlight", n, j) = {c}
                 /\ \E c \in 1..Len(clips) : ClipsOf("background", n, j) = {c}
                 /\ \A c \in ClipsOf("highlight", n, j) :
                       /\ clips[c].start = windows[n][j].start - clip_start_ms
                       /\ ClipEnd(clips[c]) = windows[n][j].end - clip_start_ms
                 /\ \A c \in ClipsOf("background", n, j) :
                       /\ clips[c].start = windows[n][1].start - clip_start_ms
                       /\ ClipEnd(clips[c]) =
                             windows[n][Len(windows[n])].end - clip_start_ms
           /\ \A c \in 1..Len(clips) :
                 clips[c].start >= 0 /\ ClipEnd(clips[c]) >= 0

\* A clip that does not start at time 0 of the video, with a second window
\* whose background text starts after the clip start and whose second word
\* is highlighted later still.
C12_Witness ==
    /\ op = "process_video_with_highlights"
    /\ Len(windows) >= 2
    /\ Len(windows[2]) >= 2
    /\ words[1].start > 0
    /\ \E c \in ClipsOf("background", 2, 2) :
          /\ clips[c].start = windows[2][1].start - words[1].start
          /\ clips[c].start > 0
    /\ \E c \in ClipsOf("highlight", 2, 2) :
          clips[c].start > windows[2][1].start - words[1].start

(***************************************************************************)
(* C13: given an empty word list, the caption windower yields no window    *)
(* and does not signal a failure: it returns True.                         *)
(***************************************************************************)
C13_EmptyTimelineSucceeds ==
    (op = "process_video_with_highlights" /\ words = <<>>) =>
        /\ windows = <<>>
        /\ result = Returned(<<TRUE>>)

(***************************************************************************)
(* C14: given an empty Word Timeline, find_phrase_occurrences raises       *)
(* InvalidInput instead of returning a result.                             *)
(***************************************************************************)
C14_EmptyTimelineRaisesInvalidInput ==
    (op = "find_phrase_occurrences" /\ words = <<>>) =>
        result.exc = "InvalidInput"

(***************************************************************************)
(* C15: a query without any token (empty or all white space) makes         *)
(* find_phrase_occurrences raise InvalidInput on every Word Timeline; it   *)
(* never returns for such a query.                                         *)
(***************************************************************************)
C15_BlankQueryRaisesInvalidInput ==
    (op = "find_phrase_occurrences" /\ TokenCount(search_phrase) = 0) =>
        result.exc = "InvalidInput"

(***************************************************************************)
(* C16: a threshold outside 0..100 makes find_phrase_occurrences and       *)
(* find_text_segment raise InvalidInput; it is never accepted.             *)
(***************************************************************************)
C16_ThresholdOutOfRangeRaisesInvalidInput ==
    (/\ op \in {"find_phrase_occurrences", "find_text_segment"}
     /\ similarity_threshold \notin 0..100) =>
        result.exc = "InvalidInput"

(***************************************************************************)
(* C17: when no window of a non-empty Word Timeline scores at least the    *)
(* threshold, which includes a query of more tokens than the timeline has  *)
(* words, find_phrase_occurrences returns the empty sequence and raises no *)
(* error.                                                                  *)
(***************************************************************************)
C17_NoMatchReturnsEmpty ==
    (/\ op = "find_phrase_occurrences"
     /\ words # <<>>
     /\ QualifyingWindows(search_phrase, similarity_threshold) = {}) =>
        result = Returned(<<>>)

\* A query of two tokens on a timeline of one word.
C17_Witness ==
    /\ op = "find_phrase_occurrences"
    /\ Len(words) = 1
    /\ TokenCount(search_phrase) = 2
    /\ QualifyingWindows(search_phrase, similarity_threshold) = {}
    /\ result = Returned(<<>>)

(***************************************************************************)
(* C18: the searches are pure functions of the Word Timeline, the query    *)
(* texts and the threshold.  Whatever searches were made before on the     *)
(* same transcript, in whatever order, a search returns what it returns    *)
(* when it is the only one made, and no step changes a Word of the         *)
(* timeline.                                                               *)
(***************************************************************************)
SameAsAlone ==
    /\ op = "find_phrase_occurrences" =>
          result = find_phrase_occurrences(words, search_phrase, similarity_threshold)
    /\ op = "find_text_segment" =>
          result = find_text_segment(words, start_text, end_text, similarity_threshold)

C19_SrtTimestampValue ==
    op = "parse_srt_timestamp" =>
        \A h \in SrtHours, m \in SrtMinutes, sec \in SrtSeconds, ms \in SrtMillis :
            \A hw \in SrtHourWidths(h) :
                timestamp = SrtText(h, hw, m, sec, ms) =>
                    result = Returned(<<((h * 3600 + m * 60 + sec) * 1000) + ms>>)

\* 12:07:59,040 parses to 43 679 040 ms.
C19_Witness ==
    /\ op = "parse_srt_timestamp"
    /\ timestamp = SrtText(12, 2, 7, 59, 40)
    /\ result = Returned(<<43679040>>)

(***************************************************************************)
(* C20: the words handed to clip extraction are exactly the Words of the   *)
(* timeline whose start lies in [start_time, start_time + clip_duration]   *)
(* (ms), in timeline order, each with its end replaced by the smaller of   *)
(* its end and the clip's end; every handed word has start <= end, and the *)
(* Words of the timeline are not changed.                                  *)
(***************************************************************************)
ClipEndMs == chosen_start_time + clip_duration

InClip == { i \in 1..Len(words) : chosen_start_time <= words[i].start /\ words[i].start <= ClipEndMs }

\* The n-th word of the timeline, in timeline order, that lies in the clip.
NthInClip(n) == CHOOSE i \in InClip : Cardinality({ j \in InClip : j <= i }) = n

HandedWordsAreClipWords ==
    op = "process_video" =>
        /\ Len(clip_segment_words) = Cardinality(InClip)
        /\ \A n \in 1..Len(clip_segment_words) :
              /\ clip_segment_words[n].text = words[NthInClip(n)].text
              /\ clip_segment_words[n].start = words[NthInClip(n)].start
              /\ clip_segment_words[n].end =
                    IF words[NthInClip(n)].end <= ClipEndMs
                    THEN words[NthInClip(n)].end ELSE ClipEndMs
              /\ clip_segment_words[n].start <= clip_segment_words[n].end

C20_ClipWordsHandedOver == [] HandedWordsAreClipWords /\ [][words' = words]_vars

\* A clip of one second that leaves out a later word of the timeline and
\* cuts the end of its last word.
C20_Witness ==
    /\ op = "process_video"
    /\ Len(clip_segment_words) >= 2
    /\ Len(clip_segment_words) < Len(words)
    /\ clip_segment_words[Len(clip_segment_words)].end < words[NthInClip(Len(clip_segment_words))].end
    /\ clip_segment_words[Len(clip_segment_words)].end = ClipEndMs

(***************************************************************************)
(* C21: a search phrase of more than 5 words is cut to its first 5 words   *)
(* before the matcher is called: process_video never hands                 *)
(* find_phrase_occurrences a query of more than 5 tokens.                  *)
(***************************************************************************)
PhraseSearched ==
    /\ op = "main"
    /\ Truthy(arg_search_phrase)
    /\ pc \notin {"idle", "setup", "transcribed"}
    /\ audio_downloaded

C21_QueryAtMostFiveTokens ==
    PhraseSearched => TokenCount(search_phrase) <= 5

(***************************************************************************)
(* C22: get_segment_texts returns a start text of the first words and an   *)
(* end text of the last words of the input, each of at most 5 words, from  *)
(* disjoint word positions; an input of more than 10 words gives 5 words   *)
(* each, and every input with at least one word gives two non-empty        *)
(* anchors.                                                                *)
(***************************************************************************)
C22_AnchorsOfFullText ==
    op = "get_segment_texts" =>
        LET text_words == Split(input_full_text)
            n == Len(text_words)
            start_words == Split(result.value[1])
            end_words == Split(result.value[2])
        IN /\ Len(start_words) <= 5
           /\ Len(end_words) <= 5
           /\ Len(start_words) + Len(end_words) <= n
           /\ start_words = SubSeq(text_words, 1, Len(start_words))
           /\ end_words = SubSeq(text_words, n - Len(end_words) + 1, n)
           /\ n > 10 => Len(start_words) = 5 /\ Len(end_words) = 5
           /\ n >= 1 => result.value[1] # <<>> /\ result.value[2] # <<>>

(***************************************************************************)
(* C23: any two distinct occurrences that find_phrase_occurrences returns  *)
(* start at least 0.5 s apart.                                             *)
(***************************************************************************)
C23_ReturnedStartsApart ==
    PhraseReturned =>
        \A a, b \in 1..Len(result.value) :
            a # b =>
                AbsDiff(result.value[a].start_time, result.value[b].start_time)
                    >= OverlapRadius

\* Two occurrences are returned, exactly 0.5 s apart, and a qualifying
\* window a quarter of a second from one of them is not returned.
C23_Witness ==
    /\ PhraseReturned
    /\ Len(result.value) = 2
    /\ AbsDiff(result.value[1].start_time, result.value[2].start_time) = OverlapRadius
    /\ \E i \in QualifyingWindows(search_phrase, similarity_threshold) :
          /\ ~ IsKept(search_phrase, i)
          /\ \E a \in 1..2 : AbsDiff(result.value[a].start_time, words[i + 1].start) = 250

(***************************************************************************)
(* C24: a segment find_text_segment returns spans its whole start anchor   *)
(* and its end anchor does not begin before the start anchor: the          *)
(* segment's end is at or after the end of the chosen start occurrence,    *)
(* and the chosen end occurrence starts at or after the chosen start       *)
(* occurrence.                                                             *)
(***************************************************************************)
C24_SegmentSpansStartAnchor ==
    SegmentReturned =>
        /\ TheSegment.end_time >= StartOccs[FirstPair[1]].end_time
        /\ EndOccs[FirstPair[2]].start_time >= StartOccs[FirstPair[1]].start_time

(***************************************************************************)
(* C25: the highlight of every word lies inside the display interval of    *)
(* the background text of its own window: it starts no earlier and ends no *)
(* later.                                                                  *)
(***************************************************************************)
C25_HighlightInsideWindow ==
    (op = "process_video_with_highlights" /\ words # <<>> /\ window_size >= 1) =>
        \A n \in 1..Len(windows) : \A j \in 1..Len(windows[n]) :
            \A h \in ClipsOf("highlight", n, j), b \in ClipsOf("background", n, j) :
                /\ clips[b].start <= clips[h].start
                /\ ClipEnd(clips[h]) <= ClipEnd(clips[b])

\* A call of extract_clip, of either handler, has been made.
ClipExtracted == op = "extract_clip"

ClipReturned == ClipExtracted /\ clip_outcome.exc = "none"

\* The path the call would return for the subtitled clip.
FinalPathOfCall == IF clip_env.call = "handler" THEN FinalPath ELSE CliFinalPath

\* C26: whenever extract_clip returns normally the path it returns names a
\* file that exists.  It returns the subtitled path only if the subtitle
\* processing reported success and that file exists, and then the base clip
\* has been deleted; every other return gives the base clip's path, and the
\* base clip is still there.
C26_ReturnedPathExists ==
    ClipReturned =>
        /\ clip_outcome.value \in disk
        /\ clip_outcome.value \in {BasePath, FinalPathOfCall}
        /\ clip_outcome.value = FinalPathOfCall =>
               /\ clip_env.env.subtitles = "true"
               /\ FinalPathOfCall \in disk
               /\ BasePath \notin disk
        /\ clip_outcome.value # FinalPathOfCall =>
               /\ clip_outcome.value = BasePath
               /\ BasePath \in disk

\* The subtitled clip is returned by one handler and the base clip, after a
\* subtitle processing that raised, by the other.
C26_Witness ==
    /\ ClipReturned
    /\ \/ clip_env.call = "handler" /\ clip_outcome.value = FinalPath
       \/ /\ clip_env.call = "transcript"
          /\ clip_env.env.subtitles = "raises"
          /\ clip_outcome.value = BasePath

\* C27: whenever extract_clip of the handler fails (the download raises or
\* the downloaded file is missing) the exception reaches the caller and, if
\* the removals succeed, none of the base clip, the subtitled clip and the
\* SRT file is left, the SRT file written before the download included.
C27_FailureLeavesNoFile ==
    (ClipExtracted /\ clip_env.call = "handler") =>
        /\ clip_env.env.download \in {"raises", "missing"} => clip_outcome.exc # "none"
        /\ (clip_outcome.exc # "none" /\ clip_env.env.remove_ok) =>
               disk \cap {BasePath, FinalPath, SrtPath} = {}

\* The download raised after the SRT file had been written and a part of
\* the clip was left; the removals succeeded.
C27_Witness ==
    /\ ClipExtracted
    /\ clip_env.call = "handler"
    /\ clip_env.given
    /\ clip_env.env.download = "raises"
    /\ clip_env.env.partial
    /\ clip_env.env.remove_ok
    /\ clip_outcome.exc # "none"
    /\ disk = {}

\* The two-pass render has returned.
TwoPassReturned == op = "two_pass" /\ clip_outcome.exc = "none"

\* C30: when the two-pass process_video_with_highlights returns, the
\* intermediate '_temp.mp4' file does not exist, and it returns True only if
\* both the base-subtitle pass and the highlight pass succeeded.
C30_TempRemovedAndTrueMeansBothPasses ==
    TwoPassReturned =>
        /\ TempPath \notin disk
        /\ clip_outcome.value = "True" =>
               (clip_env.env.first /\ clip_env.env.second)

\* process_video has been called.
VideoProcessed == op = "main"

\* An argument is given: it is neither None nor the empty text.
Given(x) == x \notin {None, <<>>}

InconsistentArguments ==
    \/ Given(arg_search_phrase) /\ (Given(arg_start_text) \/ Given(arg_end_text))
    \/ Given(arg_start_text) /\ ~ Given(arg_end_text)
    \/ Given(arg_end_text) /\ ~ Given(arg_start_text)

\* C28: process_video called with search_phrase together with start_text or
\* end_text, or with exactly one of start_text and end_text, reports the
\* error and exits with status 1; no audio is downloaded, nothing is
\* searched and no clip is created.
C28_InconsistentArgumentsRejected ==
    (VideoProcessed /\ InconsistentArguments) =>
        /\ pc = "exit1"
        /\ ~ audio_downloaded
        /\ result = Returned(<<>>)
        /\ pv_occurrences = <<>>
        /\ extract_clip_calls = 0

\* A phrase given together with both anchors has been rejected.
C28_Witness ==
    /\ VideoProcessed
    /\ Given(arg_search_phrase)
    /\ Given(arg_start_text)
    /\ Given(arg_end_text)
    /\ pc = "exit1"

\* The user's last answer is the number of a match.
ChoseMatchNumber ==
    /\ IsNumber(choice)
    /\ 1 <= IntOf(choice)
    /\ IntOf(choice) <= Len(pv_occurrences)

\* C29: process_video calls extract_clip only after the user has chosen a
\* clip: in phrase mode after a match number in 1..len(occurrences), in
\* segment mode after 'y', 'yes' or the empty answer; 'n' in phrase mode and
\* every other answer in segment mode lead to no call.
C29_ClipOnlyAfterAffirmativeChoice ==
    (VideoProcessed /\ extract_clip_calls > 0) =>
        IF Given(arg_search_phrase) THEN ChoseMatchNumber
        ELSE choice \in Affirmative

\* The phrase-mode half of C29.
PhraseModeClipOnlyAfterMatchNumber ==
    (VideoProcessed /\ extract_clip_calls > 0 /\ Given(arg_search_phrase)) =>
        ChoseMatchNumber

====
